---- MODULE Spec2Model ----
(***************************************************************************)
(* Model of src/err.rs of dns-lookup: the LookupError type, the            *)
(* classification of getaddrinfo/getnameinfo result codes into             *)
(* LookupErrorKind, the resolution of the diagnostic message, and the      *)
(* conversions to and from io::Error.                                      *)
(*                                                                         *)
(* The three #[cfg] variants of the source are all modelled; the build     *)
(* target is drawn once in Init.  cfg(unix) is represented by two targets, *)
(* "linux" and "macos", whose libc crates give the EAI_* constants         *)
(* different values.  The raw code handed to the module is drawn in Init   *)
(* as well; the OS last-error value (errno / WSAGetLastError) changes at   *)
(* any time through SetLastOsError.                                        *)
(***************************************************************************)
EXTENDS Integers, Sequences, TLC

VARIABLES target, err, last_os_error, le, ioe, ret, op, prev, src

vars == <<target, err, last_os_error, le, ioe, ret, op, prev, src>>

-----------------------------------------------------------------------------
(* Bounds *)

\* raw codes -MaxCode .. MaxCode are enumerated (covers every EAI_* value)
MaxCode == 12
\* the OS last-error value ranges over 0 .. MaxErrno
MaxErrno == 2

-----------------------------------------------------------------------------
(* i32 / u32 *)

MinI32 == -2147483647 - 1
MaxI32 == 2147483647

\* A u32 as its two 16-bit halves <<high, low>>, so that values above
\* 2^31 - 1 stay representable.
U32(n) == <<n \div 65536, n % 65536>>

\* `err as u32`: two's complement reinterpretation of an i32.
AsU32(x) ==
  IF x >= 0 THEN U32(x)
  ELSE <<((x - MinI32) \div 65536) + 32768, (x - MinI32) % 65536>>

-----------------------------------------------------------------------------
(* Build targets *)

Targets == {"linux", "macos", "windows", "other"}
IsUnix(t) == t \in {"linux", "macos"}
IsWindows(t) == t = "windows"

-----------------------------------------------------------------------------
(* libc::EAI_* (cfg(unix)); values of the libc crate for linux and macos *)

EAI_AGAIN(t)    == IF t = "linux" THEN -3  ELSE 2
EAI_BADFLAGS(t) == IF t = "linux" THEN -1  ELSE 3
EAI_FAIL(t)     == IF t = "linux" THEN -4  ELSE 4
EAI_FAMILY(t)   == IF t = "linux" THEN -6  ELSE 5
EAI_MEMORY(t)   == IF t = "linux" THEN -10 ELSE 6
EAI_NONAME(t)   == IF t = "linux" THEN -2  ELSE 8
EAI_SERVICE(t)  == IF t = "linux" THEN -8  ELSE 9
EAI_SOCKTYPE(t) == IF t = "linux" THEN -7  ELSE 10
EAI_SYSTEM(t)   == IF t = "linux" THEN -11 ELSE 11

(* winapi::winerror::WSA* (cfg(windows)); WSAEINTVAL, as the source spells *)
(* it, carries the WinSock invalid-argument value 10022                    *)

WSATRY_AGAIN          == 11002
WSAEINTVAL            == 10022
WSANO_RECOVERY        == 11003
WSAEAFNOSUPPORT       == 10047
WSA_NOT_ENOUGH_MEMORY == 8
WSAHOST_NOT_FOUND     == 11001
WSANO_DATA            == 11004
WSATYPE_NOT_FOUND     == 10109
WSAESOCKTNOSUPPORT    == 10044

-----------------------------------------------------------------------------
(* enum LookupErrorKind *)

LookupErrorKind ==
  {"Again", "Badflags", "NoName", "NoData", "Fail", "Family", "Socktype",
   "Service", "Memory", "System", "IO"}

\* cfg(all(not(windows), not(unix)))
LookupErrorKind_new_other(e) == "IO"

\* variant: the arm for the literal -5 is absent
LookupErrorKind_new_unix_NoNoData(t, e) ==
  IF e = EAI_AGAIN(t) THEN "Again"
  ELSE IF e = EAI_BADFLAGS(t) THEN "Badflags"
  ELSE IF e = EAI_FAIL(t) THEN "Fail"
  ELSE IF e = EAI_FAMILY(t) THEN "Family"
  ELSE IF e = EAI_MEMORY(t) THEN "Memory"
  ELSE IF e = EAI_NONAME(t) THEN "NoName"
  ELSE IF e = EAI_SERVICE(t) THEN "Service"
  ELSE IF e = EAI_SOCKTYPE(t) THEN "Socktype"
  ELSE IF e = EAI_SYSTEM(t) THEN "System"
  ELSE "IO"

\* variant: the catch-all arm yields Fail instead of IO
LookupErrorKind_new_unix_DefaultFail(t, e) ==
  IF e = EAI_AGAIN(t) THEN "Again"
  ELSE IF e = EAI_BADFLAGS(t) THEN "Badflags"
  ELSE IF e = EAI_FAIL(t) THEN "Fail"
  ELSE IF e = EAI_FAMILY(t) THEN "Family"
  ELSE IF e = EAI_MEMORY(t) THEN "Memory"
  ELSE IF e = EAI_NONAME(t) THEN "NoName"
  ELSE IF e = -5 THEN "NoData"
  ELSE IF e = EAI_SERVICE(t) THEN "Service"
  ELSE IF e = EAI_SOCKTYPE(t) THEN "Socktype"
  ELSE IF e = EAI_SYSTEM(t) THEN "System"
  ELSE "Fail"

\* cfg(unix): first matching arm wins
LookupErrorKind_new_unix(t, e) ==
  IF e = EAI_AGAIN(t) THEN "Again"
  ELSE IF e = EAI_BADFLAGS(t) THEN "Badflags"
  ELSE IF e = EAI_FAIL(t) THEN "Fail"
  ELSE IF e = EAI_FAMILY(t) THEN "Family"
  ELSE IF e = EAI_MEMORY(t) THEN "Memory"
  ELSE IF e = EAI_NONAME(t) THEN "NoName"
  ELSE IF e = -5 THEN "NoData"
  ELSE IF e = EAI_SERVICE(t) THEN "Service"
  ELSE IF e = EAI_SOCKTYPE(t) THEN "Socktype"
  ELSE IF e = EAI_SYSTEM(t) THEN "System"
  ELSE "IO"

\* variant: the code is matched by magnitude instead of `as u32`
LookupErrorKind_new_windows_Magnitude(e) ==
  LET u == IF e >= 0 THEN U32(e) ELSE IF e = MinI32 THEN AsU32(e) ELSE U32(-e) IN
  IF u = U32(WSATRY_AGAIN) THEN "Again"
  ELSE IF u = U32(WSAEINTVAL) THEN "Badflags"
  ELSE IF u = U32(WSANO_RECOVERY) THEN "Fail"
  ELSE IF u = U32(WSAEAFNOSUPPORT) THEN "Family"
  ELSE IF u = U32(WSA_NOT_ENOUGH_MEMORY) THEN "Memory"
  ELSE IF u = U32(WSAHOST_NOT_FOUND) THEN "NoName"
  ELSE IF u = U32(WSANO_DATA) THEN "NoData"
  ELSE IF u = U32(WSATYPE_NOT_FOUND) THEN "Service"
  ELSE IF u = U32(WSAESOCKTNOSUPPORT) THEN "Socktype"
  ELSE "IO"

\* cfg(windows): match err as u32
LookupErrorKind_new_windows(e) ==
  LET u == AsU32(e) IN
  IF u = U32(WSATRY_AGAIN) THEN "Again"
  ELSE IF u = U32(WSAEINTVAL) THEN "Badflags"
  ELSE IF u = U32(WSANO_RECOVERY) THEN "Fail"
  ELSE IF u = U32(WSAEAFNOSUPPORT) THEN "Family"
  ELSE IF u = U32(WSA_NOT_ENOUGH_MEMORY) THEN "Memory"
  ELSE IF u = U32(WSAHOST_NOT_FOUND) THEN "NoName"
  ELSE IF u = U32(WSANO_DATA) THEN "NoData"
  ELSE IF u = U32(WSATYPE_NOT_FOUND) THEN "Service"
  ELSE IF u = U32(WSAESOCKTNOSUPPORT) THEN "Socktype"
  ELSE "IO"

\* LookupErrorKind::new, as selected by the build target
LookupErrorKind_new(t, e) ==
  IF IsUnix(t) THEN LookupErrorKind_new_unix(t, e)
  ELSE IF IsWindows(t) THEN LookupErrorKind_new_windows(e)
  ELSE LookupErrorKind_new_other(e)

-----------------------------------------------------------------------------
(* std::io::Error *)

\* io::Error::new(kind, msg)
IoError_new(kind, msg) == [repr |-> "Custom", kind |-> kind, code |-> 0, msg |-> msg]

\* io::Error::from_raw_os_error(code)
IoError_from_raw_os_error(code) == [repr |-> "Os", kind |-> "Os", code |-> code, msg |-> ""]

\* io::Error::last_os_error()
IoError_last_os_error(os) == IoError_from_raw_os_error(os)

\* Display of an io::Error: the message text
Render(e) ==
  IF e.repr = "Os" THEN "os error " \o ToString(e.code) ELSE e.msg

\* no io::Error held
NoIoError == [repr |-> "None", kind |-> "None", code |-> 0, msg |-> ""]

-----------------------------------------------------------------------------
(* gai_err_to_io_err *)

SuccessMsg == "address information lookup success"
FailureMsg == "failed to lookup address information"
FailurePrefix == "failed to lookup address information: "

\* libc::gai_strerror(err) read as a C string and decoded as UTF-8: a text
\* determined by the target's libc and the code alone.  The text is taken
\* to be valid UTF-8, so the unwrap() of line 180 does not panic.
gai_strerror(t, e) == "gai_strerror[" \o t \o "](" \o ToString(e) \o ")"

\* variant: the failure message carries the code
gai_err_to_io_err_other_WithCode(e) ==
  IF e = 0 THEN IoError_new("Other", SuccessMsg)
  ELSE IoError_new("Other", FailurePrefix \o ToString(e))

\* cfg(all(not(windows), not(unix)))
gai_err_to_io_err_other(e) ==
  IF e = 0 THEN IoError_new("Other", SuccessMsg)
  ELSE IoError_new("Other", FailureMsg)

\* variant: every non-zero code takes the last OS error
gai_err_to_io_err_unix_AlwaysOs(t, e, os) ==
  IF e = 0 THEN IoError_new("Other", SuccessMsg)
  ELSE IoError_last_os_error(os)

\* variant: the system-error arm tests the linux value of EAI_SYSTEM
gai_err_to_io_err_unix_LinuxSystem(t, e, os) ==
  IF e = 0 THEN IoError_new("Other", SuccessMsg)
  ELSE IF e = -11 THEN IoError_last_os_error(os)
  ELSE LET detail == gai_strerror(t, e)
       IN  IoError_new("Other", FailurePrefix \o detail)

\* cfg(unix)
gai_err_to_io_err_unix(t, e, os) ==
  IF e = 0 THEN IoError_new("Other", SuccessMsg)
  ELSE IF e = EAI_SYSTEM(t) THEN IoError_last_os_error(os)
  ELSE LET detail == gai_strerror(t, e)
       IN  IoError_new("Other", FailurePrefix \o detail)

\* variant: the arm for 0 is absent
gai_err_to_io_err_windows_NoZero(e, os) ==
  IoError_from_raw_os_error(os)

\* cfg(windows)
gai_err_to_io_err_windows(e, os) ==
  IF e = 0 THEN IoError_new("Other", SuccessMsg)
  ELSE IoError_from_raw_os_error(os)

\* gai_err_to_io_err, as selected by the build target
gai_err_to_io_err(t, e, os) ==
  IF IsUnix(t) THEN gai_err_to_io_err_unix(t, e, os)
  ELSE IF IsWindows(t) THEN gai_err_to_io_err_windows(e, os)
  ELSE gai_err_to_io_err_other(e)

-----------------------------------------------------------------------------
(* struct LookupError *)

\* no LookupError held
NoLookupError == [kind |-> "None", err_num |-> 0, inner |-> NoIoError]

\* LookupError::new
LookupError_new(t, e, os) ==
  [kind |-> LookupErrorKind_new(t, e),
   err_num |-> e,
   inner |-> gai_err_to_io_err(t, e, os)]

\* variant: 0 is not treated as success
match_gai_error_NoOk(t, e, os) ==
  [ok |-> FALSE, e |-> LookupError_new(t, e, os)]

\* LookupError::match_gai_error; Ok(()) carries no LookupError
match_gai_error(t, e, os) ==
  IF e = 0 THEN [ok |-> TRUE, e |-> NoLookupError]
  ELSE [ok |-> FALSE, e |-> LookupError_new(t, e, os)]

\* LookupError::kind
kind(self) == self.kind

\* LookupError::error_num
error_num(self) == self.err_num

\* variant: a fresh io::Error is built from the rendered message
From_LookupError_for_IoError_Rebuilt(e) ==
  IoError_new("Other", Render(e.inner))

\* impl From<LookupError> for io::Error
From_LookupError_for_IoError(e) == e.inner

\* variant: an OS-backed io::Error is tagged System
From_IoError_for_LookupError_System(e) ==
  [kind |-> IF e.repr = "Os" THEN "System" ELSE "IO", err_num |-> 0, inner |-> e]

\* impl From<io::Error> for LookupError
From_IoError_for_LookupError(e) ==
  [kind |-> "IO", err_num |-> 0, inner |-> e]

\* impl From<ffi::NulError> for io::Error (std), as used at line 141
From_NulError_for_IoError ==
  IoError_new("InvalidInput", "data provided contains a nul byte")

\* impl From<ffi::NulError> for LookupError
From_NulError_for_LookupError ==
  LET e == From_NulError_for_IoError IN From_IoError_for_LookupError(e)

-----------------------------------------------------------------------------
(* Inputs *)

WinsockCodes ==
  {WSATRY_AGAIN, WSAEINTVAL, WSANO_RECOVERY, WSAEAFNOSUPPORT,
   WSA_NOT_ENOUGH_MEMORY, WSAHOST_NOT_FOUND, WSANO_DATA, WSATYPE_NOT_FOUND,
   WSAESOCKTNOSUPPORT}

\* raw i32 codes: a window around zero, the WinSock values and their
\* negations, and the extremes of i32
Codes ==
  (-MaxCode .. MaxCode) \cup WinsockCodes \cup {-c : c \in WinsockCodes}
    \cup {MinI32, MaxI32}

OsErrors == 0 .. MaxErrno

\* io::Errors produced by a caller outside this module
ExternalIoErrors ==
  {IoError_from_raw_os_error(n) : n \in OsErrors}
    \cup {IoError_new("Other", "resolver input rejected")}

-----------------------------------------------------------------------------
(* State machine: a caller on one build target holding one raw code        *)
(*   le   the LookupError the caller holds (NoLookupError: none)           *)
(*   ioe  the io::Error the caller holds (NoIoError: none)                 *)
(*   ret  "Ok" / "Err" of the last match_gai_error, "none" otherwise       *)
(*   op   the last operation                                               *)
(*   prev the LookupError of the construction before the last one, when    *)
(*        the two constructions were consecutive                           *)
(*   src  the LookupError consumed by the conversion that produced ioe     *)

Init ==
  /\ target \in Targets
  /\ err \in Codes
  /\ last_os_error \in OsErrors
  /\ le = NoLookupError
  /\ ioe = NoIoError
  /\ ret = "none"
  /\ op = "init"
  /\ prev = NoLookupError
  /\ src = NoLookupError

Constructed == op \in {"new", "match_gai_error"} /\ le # NoLookupError

\* the OS overwrites the thread's last-error value
SetLastOsError(n) ==
  /\ n # last_os_error
  /\ last_os_error' = n
  /\ UNCHANGED <<target, err, le, ioe, ret, op, prev, src>>

\* LookupError::match_gai_error(err)
MatchGaiError ==
  LET r == match_gai_error(target, err, last_os_error) IN
  /\ ret' = IF r.ok THEN "Ok" ELSE "Err"
  /\ le' = r.e
  /\ prev' = IF Constructed THEN le ELSE NoLookupError
  /\ op' = "match_gai_error"
  /\ src' = NoLookupError
  /\ UNCHANGED <<target, err, last_os_error, ioe>>

\* LookupError::new(err)
New ==
  /\ le' = LookupError_new(target, err, last_os_error)
  /\ prev' = IF Constructed THEN le ELSE NoLookupError
  /\ op' = "new"
  /\ ret' = "none"
  /\ src' = NoLookupError
  /\ UNCHANGED <<target, err, last_os_error, ioe>>

\* let e: io::Error = le.into()   (le is moved)
IntoIoError ==
  /\ le # NoLookupError
  /\ ioe' = From_LookupError_for_IoError(le)
  /\ src' = le
  /\ le' = NoLookupError
  /\ prev' = NoLookupError
  /\ op' = "into_io"
  /\ ret' = "none"
  /\ UNCHANGED <<target, err, last_os_error>>

\* let e: LookupError = ioe.into()   (ioe is moved)
FromIoError ==
  /\ ioe # NoIoError
  /\ le' = From_IoError_for_LookupError(ioe)
  /\ ioe' = NoIoError
  /\ prev' = NoLookupError
  /\ op' = "from_io"
  /\ ret' = "none"
  /\ UNCHANGED <<target, err, last_os_error, src>>

\* let e: LookupError = nul_error.into()
FromNulError ==
  /\ le' = From_NulError_for_LookupError
  /\ prev' = NoLookupError
  /\ src' = NoLookupError
  /\ op' = "from_nul"
  /\ ret' = "none"
  /\ UNCHANGED <<target, err, last_os_error, ioe>>

\* the caller obtains an io::Error from elsewhere
IoErrorOccurs(e) ==
  /\ ioe' = e
  /\ src' = NoLookupError
  /\ op' = "io_error"
  /\ ret' = "none"
  /\ UNCHANGED <<target, err, last_os_error, le, prev>>

Next ==
  \/ \E n \in OsErrors : SetLastOsError(n)
  \/ MatchGaiError
  \/ New
  \/ IntoIoError
  \/ FromIoError
  \/ FromNulError
  \/ \E e \in ExternalIoErrors : IoErrorOccurs(e)

Spec == Init /\ [][Next]_vars

TypeOK ==
  /\ target \in Targets
  /\ err \in Codes
  /\ last_os_error \in OsErrors
  /\ le.kind \in LookupErrorKind \cup {"None"}
  /\ ret \in {"none", "Ok", "Err"}

-----------------------------------------------------------------------------
(* Properties *)

\* the entries of the cfg(unix) classification table and of the cfg(windows) one
PosixTable(t) ==
  {EAI_AGAIN(t), EAI_BADFLAGS(t), EAI_FAIL(t), EAI_FAMILY(t), EAI_MEMORY(t),
   EAI_NONAME(t), EAI_SERVICE(t), EAI_SOCKTYPE(t), EAI_SYSTEM(t), -5}
WindowsTable == WinsockCodes

\* C1: match_gai_error(0) is Ok and builds no LookupError; for a non-zero
\* code it is Err(e) with e.error_num() = code and e.kind() the
\* classification of the code on the active target.
C1_MatchGaiError ==
  op = "match_gai_error" =>
    IF err = 0
      THEN ret = "Ok" /\ le = NoLookupError
      ELSE /\ ret = "Err"
           /\ le # NoLookupError
           /\ error_num(le) = err
           /\ kind(le) = LookupErrorKind_new(target, err)

C1_Witness ==
  /\ op = "match_gai_error" /\ ret = "Err"
  /\ err # 0 /\ error_num(le) = err /\ kind(le) = "NoName"

C1_WitnessOk == op = "match_gai_error" /\ ret = "Ok" /\ err = 0

\* C2: on cfg(unix) every EAI_* constant of the table is classified to its
\* own kind and -5 to NoData; the ten keys are pairwise distinct, so no arm
\* shadows a later one.
C2_PosixTable ==
  (IsUnix(target) /\ Constructed) =>
    /\ (err = EAI_AGAIN(target)    => kind(le) = "Again")
    /\ (err = EAI_BADFLAGS(target) => kind(le) = "Badflags")
    /\ (err = EAI_FAIL(target)     => kind(le) = "Fail")
    /\ (err = EAI_FAMILY(target)   => kind(le) = "Family")
    /\ (err = EAI_MEMORY(target)   => kind(le) = "Memory")
    /\ (err = EAI_NONAME(target)   => kind(le) = "NoName")
    /\ (err = EAI_SERVICE(target)  => kind(le) = "Service")
    /\ (err = EAI_SOCKTYPE(target) => kind(le) = "Socktype")
    /\ (err = EAI_SYSTEM(target)   => kind(le) = "System")
    /\ (err = -5                   => kind(le) = "NoData")

C2_Witness ==
  IsUnix(target) /\ Constructed /\ err = -5 /\ kind(le) = "NoData"

\* C3: classification is total, and a code that is not an entry of the
\* active target's table is classified IO (cfg(unix) and cfg(windows)).
C3_DefaultIO ==
  Constructed =>
    /\ kind(le) \in LookupErrorKind
    /\ (IsUnix(target) /\ err \notin PosixTable(target) => kind(le) = "IO")
    /\ (IsWindows(target) /\ err \notin WindowsTable => kind(le) = "IO")

C3_Witness ==
  /\ Constructed /\ IsUnix(target) /\ err = MinI32
  /\ err \notin PosixTable(target) /\ kind(le) = "IO"

\* C4: LookupError -> io::Error returns exactly the inner error; converting
\* that io::Error back gives kind IO, err_num 0 and the same inner error with
\* the same message text.
C4_RoundTrip ==
  /\ (op = "into_io" => ioe = src.inner)
  /\ (op = "from_io" /\ src # NoLookupError =>
        /\ kind(le) = "IO"
        /\ error_num(le) = 0
        /\ le.inner = src.inner
        /\ Render(le.inner) = Render(src.inner))

C4_Witness ==
  /\ op = "from_io" /\ src # NoLookupError
  /\ kind(src) = "System" /\ error_num(src) # 0
  /\ kind(le) = "IO" /\ le.inner = src.inner

\* C5: on every target the message resolved for code 0 is the success
\* literal, whatever the OS last-error value.
C5_ZeroMessage ==
  (op = "new" /\ err = 0) =>
    /\ le.inner = IoError_new("Other", SuccessMsg)
    /\ Render(le.inner) = "address information lookup success"

C5_Witness ==
  /\ op = "new" /\ err = 0 /\ IsWindows(target) /\ last_os_error # 0
  /\ Render(le.inner) = SuccessMsg

\* C6: on the fallback target every non-zero code is classified IO and the
\* message is the success literal for 0 and the failure literal otherwise.
C6_Fallback ==
  (target = "other" /\ Constructed) =>
    /\ (err # 0 => kind(le) = "IO")
    /\ le.inner.repr = "Custom"
    /\ Render(le.inner) =
         IF err = 0 THEN "address information lookup success"
                    ELSE "failed to lookup address information"

C6_Witness ==
  /\ target = "other" /\ Constructed /\ err = -3
  /\ Render(le.inner) = FailureMsg

\* the codes whose message is read from the OS last-error value
ReadsLastOsError(t, e) ==
  \/ IsUnix(t) /\ e = EAI_SYSTEM(t)
  \/ IsWindows(t) /\ e # 0

\* C7: two consecutive constructions from the same code, under possibly
\* different OS last-error values, agree on kind and err_num; their inner
\* errors differ only for codes whose message is read from the OS.
C7_Determinism ==
  (Constructed /\ prev # NoLookupError) =>
    /\ kind(le) = kind(prev)
    /\ error_num(le) = error_num(prev)
    /\ (le.inner # prev.inner => ReadsLastOsError(target, err))

C7_Witness ==
  /\ Constructed /\ prev # NoLookupError
  /\ le.inner # prev.inner /\ kind(le) = kind(prev)

C7_WitnessStable ==
  /\ Constructed /\ prev # NoLookupError /\ IsUnix(target)
  /\ kind(le) = "Again" /\ last_os_error # 0 /\ le.inner = prev.inner

\* C8: on cfg(windows) the code is matched as a u32 against the WinSock
\* constants; every other code, every negative one included, is IO and
\* System is never produced.
C8_WindowsTable ==
  (IsWindows(target) /\ Constructed) =>
    /\ (err = WSATRY_AGAIN          => kind(le) = "Again")
    /\ (err = WSAEINTVAL            => kind(le) = "Badflags")
    /\ (err = WSANO_RECOVERY        => kind(le) = "Fail")
    /\ (err = WSAEAFNOSUPPORT       => kind(le) = "Family")
    /\ (err = WSA_NOT_ENOUGH_MEMORY => kind(le) = "Memory")
    /\ (err = WSAHOST_NOT_FOUND     => kind(le) = "NoName")
    /\ (err = WSANO_DATA            => kind(le) = "NoData")
    /\ (err = WSATYPE_NOT_FOUND     => kind(le) = "Service")
    /\ (err = WSAESOCKTNOSUPPORT    => kind(le) = "Socktype")
    /\ (err \notin WinsockCodes => kind(le) = "IO")
    /\ (err < 0 => kind(le) = "IO")
    /\ kind(le) # "System"

C8_Witness ==
  /\ IsWindows(target) /\ Constructed
  /\ err = -WSATRY_AGAIN /\ kind(le) = "IO"

\* C9: on cfg(unix) a construction takes the inner error from the OS last
\* error exactly when the code is EAI_SYSTEM, which is exactly when the kind
\* is System; for 0 the message is the success literal; for any other code
\* it is the prefix followed by gai_strerror of the code.
C9_Construct(e, os) ==
  /\ (e.inner.repr = "Os" <=> err = EAI_SYSTEM(target))
  /\ (kind(e) = "System" <=> err = EAI_SYSTEM(target))
  /\ (err = EAI_SYSTEM(target) => e.inner = IoError_from_raw_os_error(os))
  /\ (err = 0 => Render(e.inner) = "address information lookup success")
  /\ (err # 0 /\ err # EAI_SYSTEM(target) =>
        /\ e.inner.repr = "Custom"
        /\ Render(e.inner) =
             "failed to lookup address information: " \o gai_strerror(target, err))

C9_PosixMessage ==
  [][(IsUnix(target) /\ (New \/ (MatchGaiError /\ err # 0)))
       => C9_Construct(le', last_os_error)]_vars

C9_Witness ==
  /\ IsUnix(target) /\ Constructed /\ err = EAI_SYSTEM(target)
  /\ kind(le) = "System" /\ le.inner.repr = "Os"
  /\ le.inner.code # last_os_error

\* C10: every LookupError the caller can hold has kind IO when its err_num
\* is 0; a kind other than IO comes with the non-zero code the active table
\* maps to it.
C10_Holds(e) ==
  e # NoLookupError =>
    /\ (error_num(e) = 0 => kind(e) = "IO")
    /\ (kind(e) # "IO" =>
          error_num(e) # 0 /\ LookupErrorKind_new(target, error_num(e)) = kind(e))

C10_ZeroIsIO == C10_Holds(le) /\ C10_Holds(prev) /\ C10_Holds(src)

C10_Witness ==
  /\ op = "from_io" /\ le.inner.repr = "Os" /\ src = NoLookupError
  /\ error_num(le) = 0 /\ kind(le) = "IO"

C10_WitnessNewZero ==
  op = "new" /\ err = 0 /\ error_num(le) = 0 /\ kind(le) = "IO"


====
